---- MODULE Spec2Model ----
(***************************************************************************)
(* Model of the rule-based calendar assistant of src/backend/agent.py:     *)
(* the intent classifier (extract_intent), the temporal extractor          *)
(* (extract_date_time), the availability engine (get_free_slots), the      *)
(* dialogue controller (process_user_message) and the module-level         *)
(* calendar store (calendar_events), driven through the /chat handler of   *)
(* src/backend/main.py by the client of src/frontend/app.py.               *)
(*                                                                         *)
(* Representation.                                                         *)
(*  - A datetime is a record [day, hour, minute]; day is the day of the    *)
(*    current month (days after the last of the month continue the count), *)
(*    so that "the 13th" and "tomorrow" live on one axis.                  *)
(*  - datetime.isoformat() gives a string; it is modelled as the record    *)
(*    [iso |-> <<day, hour, minute>>], a shape distinct from a datetime,   *)
(*    and fromisoformat parses it back.                                    *)
(*  - A time label "HH:MM" is the record [hh, mm] (f"{hour:02d}:{minute}"  *)
(*    is injective on the hours and minutes that occur).                   *)
(*  - An optional value is None (absent / Python None) or Some(x).  A      *)
(*    session-state flag that is absent and one that is falsy are the same *)
(*    to every read of the code (all reads are .get(k) truth tests), so    *)
(*    the session state is a fixed-shape record: FALSE / None / <<>> stand *)
(*    for "key absent".                                                    *)
(*  - An utterance is the record [words, contains, pairs, num, clock,       *)
(*    range]: the text's words (with the needles they contain and the      *)
(*    pairs of adjacent words), the number it consists of when it is       *)
(*    exactly a 1-2 digit number, the clock expression it holds ("3pm",    *)
(*    "3:30pm") and its "between A-B" expression.                          *)
(***************************************************************************)
EXTENDS Integers, Sequences, FiniteSets, TLC

VARIABLES
    calendar_events,   \* agent.py:7, the module-level list of booked events
    session_state,     \* per session: the state the client carries between turns
    now,               \* the instant datetime.now() returns (agent.py:74)
    last               \* per session: the last /chat request (its intent, whether it
                       \* came with an empty session state) and what it answered

vars == <<calendar_events, session_state, now, last>>

\* ------------------------------------------------------------------ bounds

\* The store holds at most MaxEvents events (a turn that would add one more
\* is not taken).
MaxEvents == 2

\* The instant of the run: day of the month, weekday (Monday = 0), hour and
\* minute of datetime.now(), and the length of the current month.  It is a
\* Thursday the 12th, so that "tomorrow", "this friday" and "the 13th" are
\* one date.
Clock == [day |-> 12, weekday |-> 3, hour |-> 10, minute |-> 30, month_len |-> 30]

\* ------------------------------------------------------------ basic values

None == <<>>

Some(x) == <<x>>

Truthy(opt) == opt # None

\* datetime.isoformat() / datetime.fromisoformat()
isoformat(dt) == [iso |-> <<dt.day, dt.hour, dt.minute>>]

fromisoformat(s) == [day |-> s.iso[1], hour |-> s.iso[2], minute |-> s.iso[3]]

\* datetime.replace(hour=h, minute=m)
replace_hm(dt, h, m) == [dt EXCEPT !.hour = h, !.minute = m]

\* datetime.weekday(): Monday = 0 ... Sunday = 6
weekday(dt) == (now.weekday + (dt.day - now.day)) % 7

\* today + timedelta(days = n)
plus_days(dt, n) == [dt EXCEPT !.day = dt.day + n]

\* f"{hour:02d}:{minute}"
Label(h, m) == [hh |-> h, mm |-> m]

\* ------------------------------------------------------------------- text

NoClock == [h |-> -1, m |-> -1, ampm |-> ""]

NoRange == [a |-> -1, a_ampm |-> "", b |-> -1, b_ampm |-> ""]

\* The needles of agent.py (keywords, date words, day names, period names)
\* that occur as substrings of one word of the vocabulary.
Substrings(w) ==
    CASE w = "book"         -> {"book", "ok"}
      [] w = "this"         -> {"this", "hi"}
      [] w = "afternoon"    -> {"afternoon", "no"}
      [] w = "friday"       -> {"friday", "fri"}
      [] w = "monday"       -> {"monday", "mon"}
      [] w = "tuesday"      -> {"tuesday", "tue", "tues"}
      [] w = "wednesday"    -> {"wednesday", "wed"}
      [] w = "thursday"     -> {"thursday", "thu", "thurs"}
      [] w = "saturday"     -> {"saturday", "sat"}
      [] w = "sunday"       -> {"sunday", "sun"}
      [] w = "okay"         -> {"okay", "ok"}
      [] w = "nope"         -> {"nope", "no"}
      [] w = "not"          -> {"not", "no"}
      [] w \in {"a", "for", "do", "you", "what", "is", "my", "at", "thanks"} -> {}
      [] OTHER              -> {w}

\* the one-word needles that occur in a text, and the pairs of adjacent words
Contained(ws) == UNION {Substrings(ws[i]) : i \in 1..Len(ws)}

Adjacent(ws) == {<<ws[i], ws[i + 1]>> : i \in 1..(Len(ws) - 1)}

Text(ws, n, clock, range) ==
    [words |-> ws, contains |-> Contained(ws), pairs |-> Adjacent(ws),
     num |-> n, clock |-> clock, range |-> range]

Words(ws) == Text(ws, -1, NoClock, NoRange)

Number(n) == Text(<<>>, n, NoClock, NoRange)

WithClock(ws, h, m, ap) == Text(ws, -1, [h |-> h, m |-> m, ampm |-> ap], NoRange)

WithRange(ws, a, aap, b, bap) ==
    Text(ws, -1, NoClock, [a |-> a, a_ampm |-> aap, b |-> b, b_ampm |-> bap])

\* needle in text_lower, for a needle without a space
Has(text, needle) == needle \in text.contains

\* needle in text_lower, for the needle "a b"
HasPair(text, a, b) == <<a, b>> \in text.pairs

\* re.match(r'^\d{1,2}$', text_lower)
IsNumber(text) == text.num # -1

\* any(word in text_lower for word in [...]), for a list of one-word needles
AnyOf(text, needles) == \E n \in needles : Has(text, n)

\* ------------------------------------------------- temporal extractor

\* the datetime datetime.now() returns
today == [day |-> now.day, hour |-> now.hour, minute |-> now.minute]

\* agent.py:91-99, in insertion order
day_patterns ==
    << <<"monday", 0>>, <<"mon", 0>>,
       <<"tuesday", 1>>, <<"tue", 1>>, <<"tues", 1>>,
       <<"wednesday", 2>>, <<"wed", 2>>,
       <<"thursday", 3>>, <<"thu", 3>>, <<"thurs", 3>>,
       <<"friday", 4>>, <<"fri", 4>>,
       <<"saturday", 5>>, <<"sat", 5>>,
       <<"sunday", 6>>, <<"sun", 6>> >>

\* mutant of to_24h: 12 pm is moved to the afternoon like every other pm hour
to_24h_noon_shifted(hour, ampm) ==
    IF ampm = "pm" THEN hour + 12
    ELSE IF ampm = "am" /\ hour = 12 THEN 0
    ELSE hour

\* 12-hour to 24-hour, as agent.py:149-152 and 157-160 (and dateutil) do it
to_24h(hour, ampm) ==
    IF ampm = "pm" /\ hour # 12 THEN hour + 12
    ELSE IF ampm = "am" /\ hour = 12 THEN 0
    ELSE hour

\* date_parser.parse(clean_text, fuzzy=True, default=today) of the dateutil
\* library, with the except of agent.py:132: a lone number N is the Nth of the
\* current month (no such day: ValueError, so None); a clock expression is
\* today at that hour (minutes from the text, else from the default); a text
\* with neither holds no date (ParserError, so None).  The vocabulary keeps
\* lone numbers <= 31 (a larger one is read as a year) and gives every
\* "between A-B" text a relative date, so that the parser never sees it.
date_parser_parse(text) ==
    IF text.num # -1
    THEN IF 1 <= text.num /\ text.num <= now.month_len
         THEN Some([day |-> text.num, hour |-> now.hour, minute |-> now.minute])
         ELSE None
    ELSE IF text.clock.h # -1 /\ text.range.a = -1
    THEN Some([day |-> now.day,
               hour |-> to_24h(text.clock.h, text.clock.ampm),
               minute |-> IF text.clock.m = -1 THEN now.minute ELSE text.clock.m])
    ELSE None

\* mutant of day_of_week_date: "next" adds no week
day_of_week_date_next_as_this(text) ==
    LET hits == {i \in 1..Len(day_patterns) : Has(text, day_patterns[i][1])}
    IN  IF hits = {} THEN None
        ELSE LET first == CHOOSE i \in hits : \A j \in hits : i <= j
                 day_num == day_patterns[first][2]
                 diff == day_num - weekday(today)
                 days_ahead == IF diff <= 0 THEN diff + 7 ELSE diff
             IN  Some(plus_days(today, days_ahead))

\* agent.py:102-124: the first day name of the table that occurs in the text
day_of_week_date(text) ==
    LET hits == {i \in 1..Len(day_patterns) : Has(text, day_patterns[i][1])}
    IN  IF hits = {} THEN None
        ELSE LET first == CHOOSE i \in hits : \A j \in hits : i <= j
                 day_num == day_patterns[first][2]
                 diff == day_num - weekday(today)
                 days_ahead == IF diff <= 0 THEN diff + 7 ELSE diff
             IN  IF Has(text, "this") THEN Some(plus_days(today, days_ahead))
                 ELSE IF Has(text, "next") THEN Some(plus_days(today, days_ahead + 7))
                 ELSE Some(plus_days(today, days_ahead))

\* agent.py:76-133
extract_date(text) ==
    IF Has(text, "tomorrow") THEN Some(plus_days(today, 1))
    ELSE IF Has(text, "today") THEN Some(today)
    ELSE IF HasPair(text, "next", "week")
    THEN LET days_until_monday == (7 - weekday(today)) % 7
         IN  IF days_until_monday = 0 THEN Some(plus_days(today, 7))
             ELSE Some(plus_days(today, days_until_monday))
    ELSE IF HasPair(text, "this", "week") THEN Some(plus_days(today, 1))
    ELSE LET date == day_of_week_date(text)
         IN  IF Truthy(date) THEN date ELSE date_parser_parse(text)

\* agent.py:136-172: the first of the three patterns that matches
pattern_time(text) ==
    IF text.clock.h # -1 /\ text.clock.m # -1
    THEN \* (\d{1,2}):(\d{2})\s*(am|pm)?
         Some(Label(to_24h(text.clock.h, text.clock.ampm), text.clock.m))
    ELSE IF text.clock.h # -1 /\ text.clock.ampm # ""
    THEN \* (\d{1,2})\s*(am|pm)
         Some(Label(to_24h(text.clock.h, text.clock.ampm), 0))
    ELSE IF text.range.a # -1 /\ text.range.a_ampm # ""
    THEN Some(Label(to_24h(text.range.a, text.range.a_ampm), 0))
    ELSE IF text.range.b # -1 /\ text.range.b_ampm # ""
    THEN Some(Label(to_24h(text.range.b, text.range.b_ampm), 0))
    ELSE IF text.num # -1
    THEN \* ^(\d{1,2})$
         Some(Label(IF text.num < 6 THEN text.num + 12 ELSE text.num, 0))
    ELSE None

\* mutant of extract_time: a clock time of the text wins over a named period
extract_time_clock_first(text) ==
    IF Truthy(pattern_time(text)) THEN pattern_time(text)
    ELSE IF Has(text, "morning") THEN Some(Label(9, 0))
    ELSE IF Has(text, "afternoon") THEN Some(Label(14, 0))
    ELSE IF Has(text, "evening") THEN Some(Label(17, 0))
    ELSE None

\* agent.py:174-180: a named period overrides the pattern's time
extract_time(text) ==
    IF Has(text, "morning") THEN Some(Label(9, 0))
    ELSE IF Has(text, "afternoon") THEN Some(Label(14, 0))
    ELSE IF Has(text, "evening") THEN Some(Label(17, 0))
    ELSE pattern_time(text)

extract_date_time(text) == [date |-> extract_date(text), time_str |-> extract_time(text)]

\* ---------------------------------------------------- intent classifier

\* mutant of extract_intent: the booking_flow and checking_availability
\* overrides are tried before the number rules
extract_intent_overrides_first(text, ss) ==
    IF ss.booking_flow
       /\ (Truthy(extract_date_time(text).date) \/ Truthy(extract_date_time(text).time_str))
    THEN "book"
    ELSE IF ss.checking_availability /\ Truthy(extract_date_time(text).date)
    THEN "check"
    ELSE IF ss.waiting_for_time /\ IsNumber(text) THEN "select_time"
    ELSE IF Truthy(ss.availability_date) /\ ss.available_slots # <<>> /\ IsNumber(text)
    THEN "select_time"
    ELSE IF AnyOf(text, {"book", "schedule", "meeting", "call", "appointment", "reserve"})
    THEN "book"
    ELSE IF \/ AnyOf(text, {"free", "available", "availability", "slots", "open"})
            \/ HasPair(text, "have", "time") \/ HasPair(text, "free", "time")
            \/ HasPair(text, "check", "availability")
    THEN "check"
    ELSE IF AnyOf(text, {"cancel", "remove", "delete", "unbook"}) THEN "cancel"
    ELSE IF AnyOf(text, {"hi", "hello", "hey", "greetings"}) THEN "greeting"
    ELSE IF AnyOf(text, {"yes", "yeah", "sure", "ok", "okay", "confirm"}) THEN "confirm"
    ELSE IF AnyOf(text, {"no", "nope", "not", "cancel"}) THEN "reject"
    ELSE "unknown"

\* mutant of extract_intent: the rejection words are tried before the
\* cancellation words
extract_intent_reject_first(text, ss) ==
    IF ss.waiting_for_time /\ IsNumber(text) THEN "select_time"
    ELSE IF Truthy(ss.availability_date) /\ ss.available_slots # <<>> /\ IsNumber(text)
    THEN "select_time"
    ELSE IF ss.booking_flow
            /\ (Truthy(extract_date_time(text).date) \/ Truthy(extract_date_time(text).time_str))
    THEN "book"
    ELSE IF ss.checking_availability /\ Truthy(extract_date_time(text).date)
    THEN "check"
    ELSE IF AnyOf(text, {"book", "schedule", "meeting", "call", "appointment", "reserve"})
    THEN "book"
    ELSE IF \/ AnyOf(text, {"free", "available", "availability", "slots", "open"})
            \/ HasPair(text, "have", "time") \/ HasPair(text, "free", "time")
            \/ HasPair(text, "check", "availability")
    THEN "check"
    ELSE IF AnyOf(text, {"no", "nope", "not", "cancel"}) THEN "reject"
    ELSE IF AnyOf(text, {"cancel", "remove", "delete", "unbook"}) THEN "cancel"
    ELSE IF AnyOf(text, {"hi", "hello", "hey", "greetings"}) THEN "greeting"
    ELSE IF AnyOf(text, {"yes", "yeah", "sure", "ok", "okay", "confirm"}) THEN "confirm"
    ELSE "unknown"

\* mutant of extract_intent: the keyword rules are tried before the
\* booking_flow and checking_availability overrides
extract_intent_keywords_first(text, ss) ==
    IF ss.waiting_for_time /\ IsNumber(text) THEN "select_time"
    ELSE IF Truthy(ss.availability_date) /\ ss.available_slots # <<>> /\ IsNumber(text)
    THEN "select_time"
    ELSE IF AnyOf(text, {"book", "schedule", "meeting", "call", "appointment", "reserve"})
    THEN "book"
    ELSE IF \/ AnyOf(text, {"free", "available", "availability", "slots", "open"})
            \/ HasPair(text, "have", "time") \/ HasPair(text, "free", "time")
            \/ HasPair(text, "check", "availability")
    THEN "check"
    ELSE IF AnyOf(text, {"cancel", "remove", "delete", "unbook"}) THEN "cancel"
    ELSE IF AnyOf(text, {"hi", "hello", "hey", "greetings"}) THEN "greeting"
    ELSE IF AnyOf(text, {"yes", "yeah", "sure", "ok", "okay", "confirm"}) THEN "confirm"
    ELSE IF AnyOf(text, {"no", "nope", "not", "cancel"}) THEN "reject"
    ELSE IF ss.booking_flow
            /\ (Truthy(extract_date_time(text).date) \/ Truthy(extract_date_time(text).time_str))
    THEN "book"
    ELSE IF ss.checking_availability /\ Truthy(extract_date_time(text).date)
    THEN "check"
    ELSE "unknown"

extract_intent(text, ss) ==
    IF ss.waiting_for_time /\ IsNumber(text) THEN "select_time"
    ELSE IF Truthy(ss.availability_date) /\ ss.available_slots # <<>> /\ IsNumber(text)
    THEN "select_time"
    ELSE IF ss.waiting_for_time /\ ss.available_slots # <<>> /\ IsNumber(text)
    THEN "select_time"
    ELSE IF ss.booking_flow
            /\ (Truthy(extract_date_time(text).date) \/ Truthy(extract_date_time(text).time_str))
    THEN "book"
    ELSE IF ss.checking_availability /\ Truthy(extract_date_time(text).date)
    THEN "check"
    ELSE IF AnyOf(text, {"book", "schedule", "meeting", "call", "appointment", "reserve"})
    THEN "book"
    ELSE IF \/ AnyOf(text, {"free", "available", "availability", "slots", "open"})
            \/ HasPair(text, "have", "time") \/ HasPair(text, "free", "time")
            \/ HasPair(text, "check", "availability")
    THEN "check"
    ELSE IF AnyOf(text, {"cancel", "remove", "delete", "unbook"}) THEN "cancel"
    ELSE IF AnyOf(text, {"hi", "hello", "hey", "greetings"}) THEN "greeting"
    ELSE IF AnyOf(text, {"yes", "yeah", "sure", "ok", "okay", "confirm"}) THEN "confirm"
    ELSE IF AnyOf(text, {"no", "nope", "not", "cancel"}) THEN "reject"
    ELSE "unknown"

\* ---------------------------------------------------- availability engine

\* an entry of calendar_events (agent.py:262-267, 516-521)
Event(date, time, duration, title) ==
    [date |-> date, time |-> time, duration |-> duration, title |-> title]

\* agent.py:187: [f"{hour:02d}:00" for hour in range(9, 18)]
business_slots == [i \in 1..9 |-> Label(i + 8, 0)]

\* mutant of same_date: the datetimes are compared, not their dates
same_date_and_time(a, b) == a = b

\* event_date.date() == date.date()
same_date(a, b) == a.day = b.day

IsStr(x) == DOMAIN x = {"iso"}

\* mutant of get_free_slots: a label booked on any date is removed
get_free_slots_any_date(date) ==
    LET booked == {calendar_events[i].time : i \in 1..Len(calendar_events)}
        free(s) == s \notin booked
    IN  SelectSeq(business_slots, free)

\* mutant of get_free_slots: the slot a session holds for confirmation is
\* removed as well, so that the answer depends on more than store and date
get_free_slots_holds_pending(date) ==
    LET event_date(e) == IF IsStr(e.date) THEN fromisoformat(e.date) ELSE e.date
        booked == {calendar_events[i].time : i \in
                      {j \in 1..Len(calendar_events) :
                          same_date(event_date(calendar_events[j]), date)}}
        held == {session_state[s].pending_booking[1].time : s \in
                    {t \in DOMAIN session_state : session_state[t].pending_booking # <<>>}}
        free(s) == s \notin booked \cup held
    IN  SelectSeq(business_slots, free)

get_free_slots(date) ==
    LET event_date(e) == IF IsStr(e.date) THEN fromisoformat(e.date) ELSE e.date
        booked == {calendar_events[i].time : i \in
                      {j \in 1..Len(calendar_events) :
                          same_date(event_date(calendar_events[j]), date)}}
        free(s) == s \notin booked
    IN  SelectSeq(business_slots, free)

InSeq(x, seq) == \E i \in 1..Len(seq) : seq[i] = x

\* agent.py:199-236, on one side of a "between A-B" range
parse_time_to_hour(hour, ampm) ==
    IF ampm = "pm" THEN (IF hour # 12 THEN hour + 12 ELSE hour)
    ELSE IF ampm = "am" THEN (IF hour = 12 THEN 0 ELSE hour)
    ELSE hour

\* ---------------------------------------------------- dialogue controller

EmptyState ==
    [booking_flow |-> FALSE, checking_availability |-> FALSE,
     waiting_for_date |-> FALSE, waiting_for_time |-> FALSE,
     selected_date |-> None, availability_date |-> None, available_slots |-> <<>>,
     pending_confirmation |-> FALSE, pending_booking |-> None]

\* what a turn leaves behind: the response (by its kind), the session state it
\* returns, the store, and whether an exception left process_user_message
Return(response, ss, events) ==
    [response |-> response, session_state |-> ss, calendar_events |-> events, raised |-> FALSE]

\* an exception leaves process_user_message: nothing is returned; ss is the
\* dict as the statements before the raise left it
Raise(exception, ss, events) ==
    [response |-> exception, session_state |-> ss, calendar_events |-> events, raised |-> TRUE]

\* datetime.replace(hour=hour, minute=0) is a ValueError outside 0..23
valid_hour(hour) == 0 <= hour /\ hour <= 23

\* mutant of confirm_pending: the confirmed booking is put in front of the
\* events of the store
confirm_pending_inserts_first(ss) ==
    LET booking == ss.pending_booking
    IN  IF Truthy(booking)
        THEN Return("confirmed", EmptyState,
                    <<Event(booking[1].date, booking[1].time, 60, "Meeting")>>
                        \o calendar_events)
        ELSE Return("no_pending_booking", EmptyState, calendar_events)

\* mutant of confirm_pending: the event is written for the first hour of the
\* day instead of the hour of the pending booking
confirm_pending_books_first_slot(ss) ==
    LET booking == ss.pending_booking
    IN  IF Truthy(booking)
        THEN Return("confirmed", EmptyState,
                    Append(calendar_events,
                           Event(booking[1].date, business_slots[1], 60, "Meeting")))
        ELSE Return("no_pending_booking", EmptyState, calendar_events)

\* mutant of confirm_pending: the booking is confirmed but never written to
\* the store
confirm_pending_without_append(ss) ==
    IF Truthy(ss.pending_booking)
    THEN Return("confirmed", EmptyState, calendar_events)
    ELSE Return("no_pending_booking", EmptyState, calendar_events)

\* agent.py:258-283
confirm_pending(ss) ==
    LET booking == ss.pending_booking
    IN  IF Truthy(booking)
        THEN Return("confirmed", EmptyState,
                    Append(calendar_events,
                           Event(booking[1].date, booking[1].time,
                                 IF "duration" \in DOMAIN booking[1]
                                 THEN booking[1].duration ELSE 60,
                                 IF "title" \in DOMAIN booking[1]
                                 THEN booking[1].title ELSE "Meeting")))
        ELSE Return("no_pending_booking", EmptyState, calendar_events)

\* mutant of select_after_availability: the selected slot is written to the
\* store at once
select_after_availability_books(text, ss) ==
    IF ~valid_hour(text.num)
    THEN Raise("ValueError", [ss EXCEPT !.pending_confirmation = TRUE], calendar_events)
    ELSE Return("selected", EmptyState,
                Append(calendar_events,
                       Event(isoformat(replace_hm(fromisoformat(ss.availability_date[1]),
                                                  text.num, 0)),
                             Label(text.num, 0), 60, "Meeting")))

\* mutant of select_after_availability: the pending booking is made for the
\* current date instead of availability_date
select_after_availability_today(text, ss) ==
    IF ~valid_hour(text.num)
    THEN Raise("ValueError", [ss EXCEPT !.pending_confirmation = TRUE], calendar_events)
    ELSE Return("selected",
                [ss EXCEPT !.pending_confirmation = TRUE,
                           !.pending_booking =
                               Some([date |-> isoformat(replace_hm(today, text.num, 0)),
                                     time |-> Label(text.num, 0),
                                     duration |-> 60, title |-> "Meeting"])],
                calendar_events)

\* agent.py:285-311
select_after_availability(text, ss) ==
    LET selected_date == IF IsStr(ss.availability_date[1])
                         THEN fromisoformat(ss.availability_date[1])
                         ELSE ss.availability_date[1]
        hour == text.num
        selected_time == Label(hour, 0)
    IN  IF ~valid_hour(hour)
        THEN Raise("ValueError", [ss EXCEPT !.pending_confirmation = TRUE], calendar_events)
        ELSE Return("selected",
                    [ss EXCEPT !.pending_confirmation = TRUE,
                               !.pending_booking =
                                   Some([date |-> isoformat(replace_hm(selected_date, hour, 0)),
                                         time |-> selected_time,
                                         duration |-> 60, title |-> "Meeting"])],
                    calendar_events)

\* mutant of greeting: the session state is not cleared
greeting_keeps_state(ss) == Return("greeting", ss, calendar_events)

\* agent.py:336-341
greeting(ss) == Return("greeting", EmptyState, calendar_events)

\* mutant of select_time: pending_confirmation is set without a pending_booking
select_time_without_booking(text, ss) ==
    IF ss.waiting_for_time /\ ss.available_slots # <<>>
    THEN IF InSeq(Label(text.num, 0), ss.available_slots)
         THEN Return("selected", [ss EXCEPT !.pending_confirmation = TRUE], calendar_events)
         ELSE Return("not_an_available_slot", ss, calendar_events)
    ELSE Return("help", EmptyState, calendar_events)

\* mutant of select_time: a number below 6 is read as an afternoon hour, as
\* the temporal extractor reads it
select_time_afternoon_guess(text, ss) ==
    LET hour == IF text.num < 6 THEN text.num + 12 ELSE text.num
        selected_time == Label(hour, 0)
    IN  IF ss.waiting_for_time /\ ss.available_slots # <<>>
        THEN IF InSeq(selected_time, ss.available_slots)
             THEN LET selected_date ==
                          IF Truthy(ss.selected_date) THEN fromisoformat(ss.selected_date[1])
                          ELSE today
                  IN  Return("selected",
                             [ss EXCEPT !.pending_confirmation = TRUE,
                                        !.pending_booking =
                                            Some([date |-> isoformat(replace_hm(selected_date, hour, 0)),
                                                  time |-> selected_time,
                                                  duration |-> 60, title |-> "Meeting"])],
                             calendar_events)
             ELSE Return("not_an_available_slot", ss, calendar_events)
        ELSE Return("help", EmptyState, calendar_events)

\* agent.py:344-415
select_time(text, ss) ==
    LET hour == text.num
        selected_time == Label(hour, 0)
    IN  IF Truthy(ss.availability_date) /\ ss.available_slots # <<>>
        THEN IF InSeq(selected_time, ss.available_slots)
             THEN Return("selected",
                         [ss EXCEPT !.pending_confirmation = TRUE,
                                    !.pending_booking =
                                        Some([date |-> isoformat(fromisoformat(ss.availability_date[1])),
                                              time |-> selected_time])],
                         calendar_events)
             ELSE Return("not_an_available_slot", ss, calendar_events)
        ELSE IF ss.waiting_for_time /\ ss.available_slots # <<>>
        THEN IF InSeq(selected_time, ss.available_slots)
             THEN LET selected_date ==
                          IF Truthy(ss.selected_date) THEN fromisoformat(ss.selected_date[1])
                          ELSE IF Truthy(ss.availability_date)
                          THEN fromisoformat(ss.availability_date[1])
                          ELSE today
                  IN  Return("selected",
                             [ss EXCEPT !.pending_confirmation = TRUE,
                                        !.pending_booking =
                                            Some([date |-> isoformat(replace_hm(selected_date, hour, 0)),
                                                  time |-> selected_time,
                                                  duration |-> 60, title |-> "Meeting"])],
                             calendar_events)
             ELSE Return("not_an_available_slot", ss, calendar_events)
        ELSE Return("help", EmptyState, calendar_events)

\* agent.py:418-434
confirm_intent(ss) ==
    LET booking == ss.pending_booking[1]
    IN  Return("booked_pending", EmptyState,
               Append(calendar_events,
                      Event(booking.date, booking.time,
                            IF "duration" \in DOMAIN booking THEN booking.duration ELSE 60,
                            IF "title" \in DOMAIN booking THEN booking.title ELSE "Meeting")))

\* mutant of cancel_pending: the answer says cancelled but the state, with its
\* pending booking, is kept
cancel_pending_keeps_booking(ss) == Return("cancelled", ss, calendar_events)

\* agent.py:437-442
cancel_pending(ss) == Return("cancelled", EmptyState, calendar_events)

\* mutant of check: the slots are stored on top of the state of the turn
\* instead of a cleared one
check_keeps_flags(date, ss) ==
    IF ~Truthy(date)
    THEN Return("ask_check_date", [ss EXCEPT !.checking_availability = TRUE], calendar_events)
    ELSE LET free_slots == get_free_slots(date[1])
         IN  IF free_slots # <<>>
             THEN Return("free_slots",
                         [ss EXCEPT !.availability_date = Some(isoformat(date[1])),
                                    !.available_slots = free_slots],
                         calendar_events)
             ELSE Return("no_free_slots", ss, calendar_events)

\* agent.py:445-465
check(date, ss) ==
    IF ~Truthy(date)
    THEN Return("ask_check_date", [ss EXCEPT !.checking_availability = TRUE], calendar_events)
    ELSE LET free_slots == get_free_slots(date[1])
         IN  IF free_slots # <<>>
             THEN Return("free_slots",
                         [EmptyState EXCEPT !.availability_date = Some(isoformat(date[1])),
                                            !.available_slots = free_slots],
                         calendar_events)
             ELSE Return("no_free_slots", EmptyState, calendar_events)

\* mutant of book_on_date: a direct booking does not clear the session state
book_on_date_keeps_state(date, time_str, ss, free_slots) ==
    IF Truthy(time_str)
    THEN IF InSeq(time_str[1], free_slots)
         THEN Return("booked", ss,
                     Append(calendar_events,
                            Event(isoformat(replace_hm(date, time_str[1].hh, time_str[1].mm)),
                                  time_str[1], 60, "Meeting")))
         ELSE Return("time_not_available", [ss EXCEPT !.waiting_for_time = TRUE],
                     calendar_events)
    ELSE IF free_slots # <<>>
    THEN Return("ask_time",
                [ss EXCEPT !.waiting_for_time = TRUE, !.available_slots = free_slots],
                calendar_events)
    ELSE Return("no_free_slots", [ss EXCEPT !.waiting_for_date = TRUE], calendar_events)

\* mutant of book_on_date: a free explicit time is not booked at once but
\* held for a confirmation
book_on_date_asks_confirmation(date, time_str, ss, free_slots) ==
    IF Truthy(time_str)
    THEN IF InSeq(time_str[1], free_slots)
         THEN Return("selected",
                     [ss EXCEPT !.pending_confirmation = TRUE,
                                !.pending_booking =
                                    Some([date |-> isoformat(replace_hm(date, time_str[1].hh,
                                                                        time_str[1].mm)),
                                          time |-> time_str[1],
                                          duration |-> 60, title |-> "Meeting"])],
                     calendar_events)
         ELSE Return("time_not_available", [ss EXCEPT !.waiting_for_time = TRUE],
                     calendar_events)
    ELSE IF free_slots # <<>>
    THEN Return("ask_time",
                [ss EXCEPT !.waiting_for_time = TRUE, !.available_slots = free_slots],
                calendar_events)
    ELSE Return("no_free_slots", [ss EXCEPT !.waiting_for_date = TRUE], calendar_events)

\* mutant of book_on_date: the explicit time is booked without looking at the
\* free slots
book_on_date_unchecked(date, time_str, ss, free_slots) ==
    IF Truthy(time_str)
    THEN Return("booked", EmptyState,
                Append(calendar_events,
                       Event(isoformat(replace_hm(date, time_str[1].hh, time_str[1].mm)),
                             time_str[1], 60, "Meeting")))
    ELSE IF free_slots # <<>>
    THEN Return("ask_time",
                [ss EXCEPT !.waiting_for_time = TRUE, !.available_slots = free_slots],
                calendar_events)
    ELSE Return("no_free_slots", [ss EXCEPT !.waiting_for_date = TRUE], calendar_events)

\* agent.py:512-545 and 573-606: a date is known, no range was given
book_on_date(date, time_str, ss, free_slots) ==
    IF Truthy(time_str)
    THEN IF InSeq(time_str[1], free_slots)
         THEN Return("booked", EmptyState,
                     Append(calendar_events,
                            Event(isoformat(replace_hm(date, time_str[1].hh, time_str[1].mm)),
                                  time_str[1], 60, "Meeting")))
         ELSE Return("time_not_available", [ss EXCEPT !.waiting_for_time = TRUE],
                     calendar_events)
    ELSE IF free_slots # <<>>
    THEN Return("ask_time",
                [ss EXCEPT !.waiting_for_time = TRUE, !.available_slots = free_slots],
                calendar_events)
    ELSE Return("no_free_slots", [ss EXCEPT !.waiting_for_date = TRUE], calendar_events)

\* mutant of book: the date of the text is not remembered in selected_date
book_forgets_date(text, date, time_str, ss0) ==
    LET ss1 == [ss0 EXCEPT !.booking_flow = TRUE]
    IN  IF ~Truthy(date)
        THEN Return("ask_date", [ss1 EXCEPT !.waiting_for_date = TRUE], calendar_events)
        ELSE LET free_slots == get_free_slots(date[1])
                 start_hour == parse_time_to_hour(text.range.a, text.range.a_ampm)
                 end_hour == parse_time_to_hour(text.range.b, text.range.b_ampm)
                 in_range(slot) == start_hour <= slot.hh /\ slot.hh <= end_hour
                 available_in_range == SelectSeq(free_slots, in_range)
             IN  IF text.range.a # -1
                 THEN IF available_in_range # <<>>
                      THEN Return("slots_in_range",
                                  [ss1 EXCEPT !.waiting_for_time = TRUE,
                                              !.available_slots = available_in_range],
                                  calendar_events)
                      ELSE Return("no_slots_in_range", ss1, calendar_events)
                 ELSE book_on_date(date[1], time_str, ss1, free_slots)

\* agent.py:468-545
book(text, date, time_str, ss0) ==
    LET ss1 == [ss0 EXCEPT !.booking_flow = TRUE]
    IN  IF ~Truthy(date)
        THEN Return("ask_date", [ss1 EXCEPT !.waiting_for_date = TRUE], calendar_events)
        ELSE LET free_slots == get_free_slots(date[1])
                 ss == [ss1 EXCEPT !.selected_date = Some(isoformat(date[1]))]
                 start_hour == parse_time_to_hour(text.range.a, text.range.a_ampm)
                 end_hour == parse_time_to_hour(text.range.b, text.range.b_ampm)
                 in_range(slot) == start_hour <= slot.hh /\ slot.hh <= end_hour
                 available_in_range == SelectSeq(free_slots, in_range)
             IN  IF text.range.a # -1
                 THEN IF available_in_range # <<>>
                      THEN Return("slots_in_range",
                                  [ss EXCEPT !.waiting_for_time = TRUE,
                                             !.available_slots = available_in_range],
                                  calendar_events)
                      ELSE Return("no_slots_in_range", ss, calendar_events)
                 ELSE book_on_date(date[1], time_str, ss, free_slots)

\* mutant of flow_management: a turn that brings nothing new drops the booking
\* that waits for confirmation
flow_management_drops_pending(date, time_str, ss) ==
    LET kept == [ss EXCEPT !.pending_confirmation = FALSE, !.pending_booking = None]
    IN  IF ss.checking_availability /\ Truthy(date)
        THEN IF get_free_slots(date[1]) # <<>>
             THEN Return("free_slots", EmptyState, calendar_events)
             ELSE Return("no_free_slots", EmptyState, calendar_events)
        ELSE IF ss.booking_flow /\ (Truthy(date) \/ Truthy(time_str))
        THEN IF ~Truthy(date)
             THEN Return("still_waiting_for_date", [ss EXCEPT !.waiting_for_date = TRUE],
                         calendar_events)
             ELSE book_on_date(date[1], time_str,
                               [ss EXCEPT !.selected_date = Some(isoformat(date[1]))],
                               get_free_slots(date[1]))
        ELSE IF ss.waiting_for_date THEN Return("still_waiting_for_date", kept, calendar_events)
        ELSE IF ss.waiting_for_time THEN Return("still_waiting_for_time", kept, calendar_events)
        ELSE IF ss.checking_availability
        THEN Return("still_waiting_for_check_date", kept, calendar_events)
        ELSE Return("help", kept, calendar_events)

\* mutant of flow_management: a re-prompt starts the conversation over
flow_management_resets(date, time_str, ss) ==
    IF ss.checking_availability /\ Truthy(date)
    THEN IF get_free_slots(date[1]) # <<>>
         THEN Return("free_slots", EmptyState, calendar_events)
         ELSE Return("no_free_slots", EmptyState, calendar_events)
    ELSE IF ss.booking_flow /\ (Truthy(date) \/ Truthy(time_str))
    THEN IF ~Truthy(date)
         THEN Return("still_waiting_for_date", [ss EXCEPT !.waiting_for_date = TRUE],
                     calendar_events)
         ELSE book_on_date(date[1], time_str,
                           [ss EXCEPT !.selected_date = Some(isoformat(date[1]))],
                           get_free_slots(date[1]))
    ELSE IF ss.waiting_for_date THEN Return("still_waiting_for_date", EmptyState, calendar_events)
    ELSE IF ss.waiting_for_time THEN Return("still_waiting_for_time", EmptyState, calendar_events)
    ELSE IF ss.checking_availability
    THEN Return("still_waiting_for_check_date", EmptyState, calendar_events)
    ELSE Return("help", ss, calendar_events)

\* agent.py:548-626
flow_management(date, time_str, ss) ==
    IF ss.checking_availability /\ Truthy(date)
    THEN IF get_free_slots(date[1]) # <<>>
         THEN Return("free_slots", EmptyState, calendar_events)
         ELSE Return("no_free_slots", EmptyState, calendar_events)
    ELSE IF ss.booking_flow /\ (Truthy(date) \/ Truthy(time_str))
    THEN IF ~Truthy(date)
         THEN Return("still_waiting_for_date", [ss EXCEPT !.waiting_for_date = TRUE],
                     calendar_events)
         ELSE book_on_date(date[1], time_str,
                           [ss EXCEPT !.selected_date = Some(isoformat(date[1]))],
                           get_free_slots(date[1]))
    ELSE IF ss.waiting_for_date THEN Return("still_waiting_for_date", ss, calendar_events)
    ELSE IF ss.waiting_for_time THEN Return("still_waiting_for_time", ss, calendar_events)
    ELSE IF ss.checking_availability
    THEN Return("still_waiting_for_check_date", ss, calendar_events)
    ELSE Return("help", ss, calendar_events)

\* agent.py:248-626
process_user_message(text, ss) ==
    LET intent == extract_intent(text, ss)
        date == extract_date_time(text).date
        time_str == extract_date_time(text).time_str
    IN  IF ss.pending_confirmation /\ intent \in {"confirm", "yes", "ok"}
        THEN confirm_pending(ss)
        ELSE IF Truthy(ss.availability_date) /\ intent = "select_time"
        THEN select_after_availability(text, ss)
        ELSE IF intent = "check_availability"
        THEN (IF Truthy(date)
              THEN IF get_free_slots(date[1]) # <<>>
                   THEN Return("free_slots",
                               [EmptyState EXCEPT !.availability_date = Some(isoformat(date[1]))],
                               calendar_events)
                   ELSE Return("no_free_slots", EmptyState, calendar_events)
              ELSE Return("ask_check_date", [ss EXCEPT !.checking_availability = TRUE],
                          calendar_events))
        ELSE IF intent = "greeting" THEN greeting(ss)
        ELSE IF intent = "select_time" THEN select_time(text, ss)
        ELSE IF intent = "confirm" /\ ss.pending_confirmation /\ Truthy(ss.pending_booking)
        THEN confirm_intent(ss)
        ELSE IF intent = "cancel" /\ ss.pending_confirmation THEN cancel_pending(ss)
        ELSE IF intent = "check" THEN check(date, ss)
        ELSE IF intent = "book" THEN book(text, date, time_str, ss)
        ELSE flow_management(date, time_str, ss)

\* ------------------------------------------------------------- the turns

\* The utterances a user types.
Utterances ==
    { Words(<<"hi">>),
      Words(<<"yes">>),
      Words(<<"no">>),
      Words(<<"cancel">>),
      Words(<<"thanks">>),
      Words(<<"this", "friday">>),
      Words(<<"book", "a", "meeting">>),
      Words(<<"book", "a", "meeting", "tomorrow">>),
      Words(<<"book", "a", "call", "for", "tomorrow", "afternoon">>),
      Words(<<"check", "availability">>),
      Words(<<"do", "you", "have", "free", "time", "this", "friday">>),
      WithRange(<<"book", "a", "meeting", "between", "tomorrow">>, 3, "", 5, "pm"),
      WithRange(<<"book", "a", "meeting", "between", "tomorrow">>, 3, "pm", 5, "pm"),
      Number(0),
      Number(13),
      Number(31) }

\* the sessions of a run
Sessions == DOMAIN session_state

\* nothing was asked yet
NoAnswer ==
    [intent |-> "", from_empty |-> TRUE, response |-> "", raised |-> FALSE, selected |-> None]

Init ==
    /\ calendar_events = <<>>
    /\ session_state = [s \in {1} |-> EmptyState]
    /\ now = Clock
    /\ last = [s \in {1} |-> NoAnswer]

\* main.py:15-27 with frontend/app.py:86-109: one /chat request of session s.
\* The client sends its session state and stores the one returned; when the
\* request fails (the exception makes it a 500) it keeps the state it had.
chat(s, text) ==
    LET result == process_user_message(text, session_state[s])
        \* the store of a run grows to MaxEvents events at most
        fits == IF result.calendar_events = calendar_events THEN TRUE
                ELSE Len(result.calendar_events) <= MaxEvents
    IN  /\ fits
        /\ calendar_events' = result.calendar_events
        /\ session_state' = [session_state EXCEPT
                                ![s] = IF result.raised THEN @ ELSE result.session_state]
        /\ last' = [last EXCEPT
                       ![s] = [intent |-> extract_intent(text, session_state[s]),
                               from_empty |-> session_state[s] = EmptyState,
                               response |-> result.response,
                               raised |-> result.raised,
                               \* the booking the latest select_time turn held for
                               \* confirmation, until the state loses it
                               selected |->
                                   IF result.raised THEN @.selected
                                   ELSE IF result.response = "selected"
                                           /\ extract_intent(text, session_state[s])
                                                  = "select_time"
                                   THEN result.session_state.pending_booking
                                   ELSE IF result.session_state.pending_booking = None
                                   THEN None
                                   ELSE @.selected]]
        /\ UNCHANGED now

Next == \E s \in Sessions, text \in Utterances : chat(s, text)

Spec == Init /\ [][Next]_vars

\* agent.py:516-521: the event a booking of the slot hour:00 of a day leaves
Booked(day, hour) ==
    Event(isoformat([day |-> day, hour |-> hour, minute |-> 0]), Label(hour, 0), 60, "Meeting")

\* Stores of a server that has been running for a while: nothing booked, a
\* booking on another day than the one the utterances speak of, and that day
\* fully booked.
EarlierBookings ==
    { <<>>,
      <<Booked(now.day + 2, 13)>>,
      [i \in 1..9 |-> Booked(now.day + 1, i + 8)] }

InitRunning ==
    /\ now = Clock
    /\ calendar_events \in EarlierBookings
    /\ session_state = [s \in {1} |-> EmptyState]
    /\ last = [s \in {1} |-> NoAnswer]

\* the same turns, on a store that holds earlier bookings
SpecRunning == InitRunning /\ [][Next]_vars

\* the names of the days of the week, Monday = 0 ... Sunday = 6
DayNames == <<"monday", "tuesday", "wednesday", "thursday", "friday", "saturday", "sunday">>

\* datetime.now() on each day of a week
Clocks == {[Clock EXCEPT !.weekday = w] : w \in 0..6}

\* Utterances that exercise the temporal extractor: day names, clock times
\* with and without minutes, a named period next to a clock time, and the
\* turns that store the dates they give.
DayUtterances ==
    { Words(<<"check", "availability">>),
      Words(<<"this", "friday">>),
      Words(<<"this", "monday">>),
      Words(<<"next", "friday">>),
      Words(<<"friday">>),
      Words(<<"book", "a", "meeting", "tomorrow">>),
      WithClock(<<"book", "a", "meeting", "tomorrow", "at">>, 12, -1, "pm"),
      WithClock(<<"book", "a", "meeting", "tomorrow", "at">>, 3, 30, "pm"),
      WithClock(<<"book", "a", "call", "tomorrow", "morning", "at">>, 3, -1, "pm"),
      Number(13) }

InitAnyDay ==
    /\ now \in Clocks
    /\ calendar_events = <<>>
    /\ session_state = [s \in {1} |-> EmptyState]
    /\ last = [s \in {1} |-> NoAnswer]

NextAnyDay == \E s \in Sessions, text \in DayUtterances : chat(s, text)

\* the turns that carry dates and times, started on any day of the week
SpecAnyDay == InitAnyDay /\ [][NextAnyDay]_vars

\* What the users of two conversations on one store type: an availability
\* question, an hour, a confirmation, and a booking with an explicit time.
SharedUtterances ==
    { Words(<<"do", "you", "have", "free", "time", "this", "friday">>),
      Number(13),
      Words(<<"yes">>),
      Words(<<"book", "a", "call", "for", "tomorrow", "afternoon">>) }

InitTwoSessions ==
    /\ now = Clock
    /\ calendar_events = <<>>
    /\ session_state = [s \in {1, 2} |-> EmptyState]
    /\ last = [s \in {1, 2} |-> NoAnswer]

NextTwoSessions == \E s \in Sessions, text \in SharedUtterances : chat(s, text)

\* two clients, each with its own session state, whose requests the server
\* handles one at a time on the one store of the process
SpecTwoSessions == InitTwoSessions /\ [][NextTwoSessions]_vars

\* ------------------------------------------------------------ properties

\* the calendar date of an event of the store
event_day(e) == fromisoformat(e.date).day

\* a datetime on calendar day d, at any time of the day the model knows
DateTimesOn(d) == {[day |-> d, hour |-> h, minute |-> m] : h \in {0, now.hour}, m \in {0, now.minute}}

\* the step is the turn of session s on utterance text, classified as intent
TurnWithIntent(s, text, intent) ==
    chat(s, text) /\ extract_intent(text, session_state[s]) = intent

\* C1: the store never holds two events with the same calendar date and the
\* same time label.
C1_NoDoubleBooking ==
    \A i, j \in 1..Len(calendar_events) :
        (i < j) =>
            ~(/\ event_day(calendar_events[i]) = event_day(calendar_events[j])
              /\ calendar_events[i].time = calendar_events[j].time)

\* C2: in every step, an event that is in the store before or after the step
\* has its time label excluded from get_free_slots of its date after the step:
\* a booked slot is taken from the turn that appends it, and stays taken.
C2_BookedSlotStaysTaken ==
    [][\A e \in {calendar_events[i] : i \in 1..Len(calendar_events)}
              \cup {calendar_events'[i] : i \in 1..Len(calendar_events')} :
          \A date \in DateTimesOn(event_day(e)) :
              ~InSeq(e.time, get_free_slots(date)')]_vars

C2_Witness ==
    /\ last[1].response \in {"booked", "confirmed"}
    /\ Len(calendar_events) = 2
    /\ \A i \in 1..2 : \A date \in DateTimesOn(event_day(calendar_events[i])) :
           ~InSeq(calendar_events[i].time, get_free_slots(date))

\* C3: a confirm turn on a state with pending_confirmation and pending_booking
\* appends exactly one event, with the date and time of pending_booking, and
\* returns the empty session state.
C3_ConfirmAppendsPending ==
    [][\A s \in Sessions, text \in Utterances :
          (/\ TurnWithIntent(s, text, "confirm")
           /\ session_state[s].pending_confirmation
           /\ Truthy(session_state[s].pending_booking))
          => (/\ Len(calendar_events') = Len(calendar_events) + 1
              /\ SubSeq(calendar_events', 1, Len(calendar_events)) = calendar_events
              /\ calendar_events'[Len(calendar_events')].date
                     = session_state[s].pending_booking[1].date
              /\ calendar_events'[Len(calendar_events')].time
                     = session_state[s].pending_booking[1].time
              /\ session_state'[s] = EmptyState)]_vars

C3_Witness ==
    /\ last[1].intent = "confirm"
    /\ last[1].response = "confirmed"
    /\ session_state[1] = EmptyState
    /\ Len(calendar_events) >= 1

\* C4: no turn ends in an exception.
C4_NoExceptionEscapes == \A s \in Sessions : ~last[s].raised

\* C5: with availability_date and available_slots set, a select_time whose
\* label is not in available_slots leaves the session state and the store as
\* they were.
C5_SelectionOutsideSlotsRejected ==
    [][\A s \in Sessions, text \in Utterances :
          (/\ TurnWithIntent(s, text, "select_time")
           /\ Truthy(session_state[s].availability_date)
           /\ session_state[s].available_slots # <<>>
           /\ ~InSeq(Label(text.num, 0), session_state[s].available_slots))
          => (/\ session_state'[s] = session_state[s]
              /\ calendar_events' = calendar_events)]_vars

\* C6: with availability_date and available_slots set, a select_time whose
\* label is in available_slots sets pending_confirmation and a pending_booking
\* on the calendar date of availability_date at that label, keeps every other
\* field of the session state, and leaves the store unchanged.
C6_SelectionInSlotsIsPending ==
    [][\A s \in Sessions, text \in Utterances :
          (/\ TurnWithIntent(s, text, "select_time")
           /\ Truthy(session_state[s].availability_date)
           /\ session_state[s].available_slots # <<>>
           /\ InSeq(Label(text.num, 0), session_state[s].available_slots))
          => (/\ session_state'[s].pending_confirmation
              /\ Truthy(session_state'[s].pending_booking)
              /\ fromisoformat(session_state'[s].pending_booking[1].date).day
                     = fromisoformat(session_state[s].availability_date[1]).day
              /\ session_state'[s].pending_booking[1].time = Label(text.num, 0)
              /\ [session_state'[s] EXCEPT !.pending_confirmation = FALSE,
                                           !.pending_booking = None]
                     = [session_state[s] EXCEPT !.pending_confirmation = FALSE,
                                                !.pending_booking = None]
              /\ calendar_events' = calendar_events)]_vars

C6_Witness ==
    /\ last[1].intent = "select_time"
    /\ last[1].response = "selected"
    /\ Truthy(session_state[1].availability_date)
    /\ session_state[1].pending_confirmation
    /\ Truthy(session_state[1].pending_booking)
    /\ InSeq(session_state[1].pending_booking[1].time, session_state[1].available_slots)

\* C7: every event of the store has a time label of the business-hours grid
\* 09:00 ... 17:00.
C7_EventsOnBusinessGrid ==
    \A i \in 1..Len(calendar_events) : InSeq(calendar_events[i].time, business_slots)

\* C8: pending_confirmation implies that pending_booking is present.
C8_PendingConfirmationHasBooking ==
    \A s \in Sessions :
        session_state[s].pending_confirmation => Truthy(session_state[s].pending_booking)

C8_Witness ==
    /\ session_state[1].pending_confirmation
    /\ Truthy(session_state[1].pending_booking)
    /\ ~Truthy(session_state[1].availability_date)
    /\ last[1].response = "selected"

\* C9: a turn that appends an event returns the empty session state.
C9_BookingResetsSession ==
    [][\A s \in Sessions, text \in Utterances :
          (chat(s, text) /\ calendar_events' # calendar_events)
          => session_state'[s] = EmptyState]_vars

C9_Witness ==
    /\ last[1].response = "booked"
    /\ ~last[1].from_empty
    /\ Len(calendar_events) >= 1
    /\ session_state[1] = EmptyState

\* C10: a turn classified as greeting returns the empty session state and
\* leaves the store unchanged, whatever the session state was.
C10_GreetingResets ==
    [][\A s \in Sessions, text \in Utterances :
          TurnWithIntent(s, text, "greeting")
          => (session_state'[s] = EmptyState /\ calendar_events' = calendar_events)]_vars

C10_Witness ==
    /\ last[1].intent = "greeting"
    /\ ~last[1].from_empty
    /\ last[1].response = "greeting"
    /\ session_state[1] = EmptyState

\* C11: a cancel turn on a state with pending_confirmation returns the empty
\* session state and leaves the store unchanged; the discarded booking is not
\* appended later either: a confirm turn on the empty state leaves the store
\* unchanged.
C11_CancelDiscardsPending ==
    [][\A s \in Sessions, text \in Utterances :
          /\ (TurnWithIntent(s, text, "cancel") /\ session_state[s].pending_confirmation)
                 => (session_state'[s] = EmptyState /\ calendar_events' = calendar_events)
          /\ (TurnWithIntent(s, text, "confirm") /\ session_state[s] = EmptyState)
                 => calendar_events' = calendar_events]_vars

C11_Witness ==
    /\ last[1].intent = "cancel"
    /\ last[1].response = "cancelled"
    /\ session_state[1] = EmptyState
    /\ calendar_events = <<>>

\* C12: a book turn without a "between A-B" range whose text holds a date and
\* a time that is free on that date appends exactly one event, on that date
\* with that time label, in the same turn, and returns the empty session state.
C12_FreeExplicitTimeBooksAtOnce ==
    [][\A s \in Sessions, text \in Utterances :
          LET date == extract_date_time(text).date
              time_str == extract_date_time(text).time_str
          IN  (/\ TurnWithIntent(s, text, "book")
               /\ text.range.a = -1
               /\ Truthy(date) /\ Truthy(time_str)
               /\ InSeq(time_str[1], get_free_slots(date[1])))
              => (/\ Len(calendar_events') = Len(calendar_events) + 1
                  /\ SubSeq(calendar_events', 1, Len(calendar_events)) = calendar_events
                  /\ event_day(calendar_events'[Len(calendar_events')]) = date[1].day
                  /\ calendar_events'[Len(calendar_events')].time = time_str[1]
                  /\ session_state'[s] = EmptyState)]_vars

C12_Witness ==
    /\ last[1].intent = "book"
    /\ last[1].response = "booked"
    /\ last[1].from_empty
    /\ session_state[1] = EmptyState
    /\ Len(calendar_events) = 1
    /\ calendar_events[1].time = Label(14, 0)
    /\ event_day(calendar_events[1]) = now.day + 1

\* C13: a book turn with a date and a "between A-B" range stores in
\* available_slots exactly the free slots of that date whose hour lies between
\* the two bounds, both read as the 24-hour values the user meant: a bound
\* written without am/pm takes the am/pm of the other bound.
C13_RangeKeepsSlotsInside ==
    [][\A s \in Sessions, text \in Utterances :
          LET date == extract_date_time(text).date
              r == text.range
              startHour == to_24h(r.a, IF r.a_ampm # "" THEN r.a_ampm ELSE r.b_ampm)
              endHour == to_24h(r.b, IF r.b_ampm # "" THEN r.b_ampm ELSE r.a_ampm)
              inside(slot) == startHour <= slot.hh /\ slot.hh <= endHour
          IN  (/\ TurnWithIntent(s, text, "book")
               /\ r.a # -1
               /\ Truthy(date)
               /\ SelectSeq(get_free_slots(date[1]), inside) # <<>>)
              => session_state'[s].available_slots
                     = SelectSeq(get_free_slots(date[1]), inside)]_vars

\* C14: a check turn whose text holds a date returns, from any session state,
\* the state that holds availability_date = that date and available_slots =
\* get_free_slots(date) and nothing else when a slot is free, and the empty
\* state when none is; the store is unchanged.
C14_CheckReplacesState ==
    [][\A s \in Sessions, text \in Utterances :
          LET date == extract_date_time(text).date
          IN  (TurnWithIntent(s, text, "check") /\ Truthy(date))
              => (/\ session_state'[s] =
                        IF get_free_slots(date[1]) # <<>>
                        THEN [EmptyState EXCEPT
                                 !.availability_date = Some(isoformat(date[1])),
                                 !.available_slots = get_free_slots(date[1])]
                        ELSE EmptyState
                  /\ calendar_events' = calendar_events)]_vars

C14_Witness ==
    /\ last[1].intent = "check"
    /\ last[1].response = "free_slots"
    /\ ~last[1].from_empty
    /\ Truthy(session_state[1].availability_date)
    /\ session_state[1].available_slots
           = get_free_slots(fromisoformat(session_state[1].availability_date[1]))
    /\ Len(session_state[1].available_slots) < Len(business_slots)

\* the calendar days the stores and the utterances speak of
QueryDays == now.day .. (now.day + 2)

\* C15: for every query date, get_free_slots returns only labels of 09:00 ...
\* 17:00, in ascending order, and such a label is in the result exactly when
\* the store holds no event on the calendar date of the query with that label;
\* events of other dates remove nothing.
C15_FreeSlotsAreGridMinusBooked ==
    \A d \in QueryDays : \A date \in DateTimesOn(d) :
        LET slots == get_free_slots(date)
            taken(label) == \E i \in 1..Len(calendar_events) :
                                /\ event_day(calendar_events[i]) = d
                                /\ calendar_events[i].time = label
        IN  /\ \A i \in 1..Len(slots) :
                   slots[i].mm = 0 /\ 9 <= slots[i].hh /\ slots[i].hh <= 17
            /\ \A i, j \in 1..Len(slots) : (i < j) => slots[i].hh < slots[j].hh
            /\ \A h \in 9..17 : InSeq(Label(h, 0), slots) <=> ~taken(Label(h, 0))

C15_Witness ==
    /\ Len(calendar_events) = 2
    /\ event_day(calendar_events[1]) # event_day(calendar_events[2])
    /\ calendar_events[1].time # calendar_events[2].time
    /\ \A date \in DateTimesOn(event_day(calendar_events[2])) :
           /\ InSeq(calendar_events[1].time, get_free_slots(date))
           /\ ~InSeq(calendar_events[2].time, get_free_slots(date))
           /\ Len(get_free_slots(date)) = Len(business_slots) - 1

C17_StoreIsAppendOnly ==
    [][/\ Len(calendar_events') \in {Len(calendar_events), Len(calendar_events) + 1}
       /\ SubSeq(calendar_events', 1, Len(calendar_events)) = calendar_events]_vars

C17_Witness ==
    /\ Len(calendar_events) = 2
    /\ calendar_events[1] # calendar_events[2]
    /\ calendar_events[1].time = Label(14, 0)
    /\ last[1].response = "confirmed"

\* C18: a turn that changes the store is a book turn whose text holds a date
\* and a time that is free on that date, or a confirm turn on a state with
\* pending_confirmation and pending_booking; every other turn leaves the store
\* unchanged.
C18_StoreChangesOnlyOnBooking ==
    [][\A s \in Sessions, text \in Utterances :
          LET date == extract_date_time(text).date
              time_str == extract_date_time(text).time_str
              intent == extract_intent(text, session_state[s])
          IN  (chat(s, text) /\ calendar_events' # calendar_events)
              => \/ /\ intent = "book"
                    /\ Truthy(date) /\ Truthy(time_str)
                    /\ InSeq(time_str[1], get_free_slots(date[1]))
                 \/ /\ intent = "confirm"
                    /\ session_state[s].pending_confirmation
                    /\ Truthy(session_state[s].pending_booking)]_vars

C18_Witness ==
    /\ Len(calendar_events) = 2
    /\ last[1].intent = "confirm"
    /\ last[1].response = "confirmed"
    /\ calendar_events[1].time = Label(13, 0)
    /\ calendar_events[2].time = Label(0, 0)

\* the texts the classifier is asked about: the utterances of the turns, and
\* texts that put a date or a time next to a keyword of each kind
ClassifierTexts ==
    Utterances \cup
    { Number(9),
      WithClock(<<"at">>, 3, -1, "pm"),
      Words(<<"tomorrow">>),
      Words(<<"cancel", "tomorrow">>),
      Words(<<"yes", "tomorrow">>),
      Words(<<"hello", "today">>),
      Words(<<"free", "next", "monday">>),
      Words(<<"yes", "cancel">>),
      Words(<<"no", "hello">>),
      Words(<<"sure", "hey">>),
      Words(<<"okay", "not">>),
      Words(<<"cancel", "my", "meeting">>),
      Words(<<"remove", "open", "slots">>),
      Words(<<"nope">>) }

\* the text is a 1-2 digit number and the state waits for a time or holds the
\* answer of an availability check
NumberIsSelection(text, ss) ==
    /\ IsNumber(text)
    /\ (ss.waiting_for_time \/ (Truthy(ss.availability_date) /\ ss.available_slots # <<>>))

\* C19: extract_intent answers select_time exactly for a text that is a 1-2
\* digit number in a state that has waiting_for_time, or availability_date and
\* available_slots; no override and no keyword rule changes that answer.
C19_SelectTimeIffNumberInContext ==
    \A s \in Sessions, text \in ClassifierTexts :
        (extract_intent(text, session_state[s]) = "select_time")
            <=> NumberIsSelection(text, session_state[s])

C19_Witness ==
    /\ last[1].intent = "select_time"
    /\ session_state[1].booking_flow
    /\ session_state[1].waiting_for_time
    /\ Truthy(extract_date_time(Number(13)).time_str)
    /\ extract_intent(Number(13), session_state[1]) = "select_time"

\* C20: when the number rule does not apply, a state with booking_flow and a
\* text that holds a date or a time give book, whatever keywords the text has
\* and whether or not checking_availability is set; when that does not apply
\* either, checking_availability and a text that holds a date give check.
C20_OverridesBeforeKeywords ==
    \A s \in Sessions, text \in ClassifierTexts :
        LET ss == session_state[s]
            date == extract_date_time(text).date
            time_str == extract_date_time(text).time_str
            in_booking == ss.booking_flow /\ (Truthy(date) \/ Truthy(time_str))
        IN  ~NumberIsSelection(text, ss)
            => /\ in_booking => extract_intent(text, ss) = "book"
               /\ (~in_booking /\ ss.checking_availability /\ Truthy(date))
                      => extract_intent(text, ss) = "check"

C20_Witness ==
    /\ last[1].intent = "book"
    /\ session_state[1].booking_flow
    /\ session_state[1].checking_availability
    /\ \A text \in { Words(<<"do", "you", "have", "free", "time", "this", "friday">>),
                      Words(<<"cancel", "tomorrow">>),
                      Words(<<"hello", "today">>),
                      Words(<<"yes", "tomorrow">>) } :
           extract_intent(text, session_state[1]) = "book"

\* C21: when no session-state override applies, the intent is the first
\* class, in the order book, check, cancel, greeting, confirm, reject, that has
\* a keyword in the text, and unknown when none has; a text with "cancel" is
\* never reject.
C21_KeywordPriority ==
    \A s \in Sessions, text \in ClassifierTexts :
        LET ss == session_state[s]
            date == extract_date_time(text).date
            time_str == extract_date_time(text).time_str
            override == \/ NumberIsSelection(text, ss)
                        \/ ss.booking_flow /\ (Truthy(date) \/ Truthy(time_str))
                        \/ ss.checking_availability /\ Truthy(date)
            classes ==
                << [class |-> "book",
                    words |-> {"book", "schedule", "meeting", "call", "appointment", "reserve"},
                    pairs |-> {}],
                   [class |-> "check",
                    words |-> {"free", "available", "availability", "slots", "open"},
                    pairs |-> {<<"have", "time">>, <<"free", "time">>,
                               <<"check", "availability">>}],
                   [class |-> "cancel",
                    words |-> {"cancel", "remove", "delete", "unbook"}, pairs |-> {}],
                   [class |-> "greeting",
                    words |-> {"hi", "hello", "hey", "greetings"}, pairs |-> {}],
                   [class |-> "confirm",
                    words |-> {"yes", "yeah", "sure", "ok", "okay", "confirm"}, pairs |-> {}],
                   [class |-> "reject",
                    words |-> {"no", "nope", "not", "cancel"}, pairs |-> {}] >>
            occurs(c) == (c.words \cap text.contains) # {} \/ (c.pairs \cap text.pairs) # {}
            hits == {i \in 1..Len(classes) : occurs(classes[i])}
            first == IF hits = {} THEN "unknown"
                     ELSE classes[CHOOSE i \in hits : \A j \in hits : i <= j].class
        IN  ~override
            => /\ extract_intent(text, ss) = first
               /\ Has(text, "cancel") => extract_intent(text, ss) # "reject"

C21_Witness ==
    /\ last[1].intent = "cancel"
    /\ last[1].from_empty
    /\ session_state[1] = EmptyState
    /\ extract_intent(Words(<<"cancel">>), session_state[1]) = "cancel"
    /\ extract_intent(Words(<<"yes", "cancel">>), session_state[1]) = "cancel"
    /\ extract_intent(Words(<<"no", "hello">>), session_state[1]) = "greeting"

\* C22: on every day of the week and for every day name d, "this d" gives a
\* date whose weekday is d, not before today and less than 7 days after today.
C22_ThisDayWithinTheWeek ==
    \A i \in 1..7 :
        LET date == extract_date_time(Words(<<"this", DayNames[i]>>)).date
        IN  /\ Truthy(date)
            /\ weekday(date[1]) = i - 1
            /\ date[1].day >= today.day
            /\ date[1].day < today.day + 7

\* C23: on every day of the week and for every day name d, "next d" gives the
\* date 7 days after the date of "this d", with weekday d, and d alone gives
\* the date of "this d".
C23_NextIsThisPlusWeek ==
    \A i \in 1..7 :
        LET this_d == extract_date_time(Words(<<"this", DayNames[i]>>)).date
            next_d == extract_date_time(Words(<<"next", DayNames[i]>>)).date
            bare_d == extract_date_time(Words(<<DayNames[i]>>)).date
        IN  /\ Truthy(this_d) /\ Truthy(next_d)
            /\ next_d[1] = plus_days(this_d[1], 7)
            /\ weekday(next_d[1]) = i - 1
            /\ bare_d = this_d

C23_Witness ==
    /\ last[1].intent = "check"
    /\ last[1].response = "free_slots"
    /\ Truthy(session_state[1].availability_date)
    /\ fromisoformat(session_state[1].availability_date[1])
           = extract_date_time(Words(<<"next", "friday">>)).date[1]
    /\ fromisoformat(session_state[1].availability_date[1]).day
           = extract_date_time(Words(<<"friday">>)).date[1].day + 7
    /\ weekday(fromisoformat(session_state[1].availability_date[1])) = 4
    /\ now.weekday = 4

\* clock times "at H am/pm", "at H:00 am/pm" and "at H:30 am/pm"
ClockTexts ==
    {WithClock(<<"at">>, h, m, ap) : h \in 1..12, m \in {-1, 0, 30}, ap \in {"am", "pm"}}

\* the bare numbers of an hour
HourTexts == {Number(n) : n \in 0..23}

\* C24: "H am/pm", with or without minutes, gives the hour H + 12 for pm with
\* H # 12, 12 for 12 pm, 0 for 12 am and H otherwise; a bare number H gives
\* H + 12 when H < 6 and H when H >= 6.
C24_HourConversion ==
    /\ \A text \in ClockTexts :
           LET H == text.clock.h
               ap == text.clock.ampm
               time_str == extract_date_time(text).time_str
           IN  /\ Truthy(time_str)
               /\ time_str[1].hh = IF ap = "pm" THEN (IF H = 12 THEN 12 ELSE H + 12)
                                    ELSE (IF H = 12 THEN 0 ELSE H)
    /\ \A text \in HourTexts :
           LET H == text.num
               time_str == extract_date_time(text).time_str
           IN  /\ Truthy(time_str)
               /\ time_str[1].hh = IF H < 6 THEN H + 12 ELSE H

C24_Witness ==
    /\ last[1].intent = "book"
    /\ last[1].response = "booked"
    /\ Len(calendar_events) >= 1
    /\ calendar_events[Len(calendar_events)].time = Label(12, 0)
    /\ calendar_events[Len(calendar_events)].time
           = extract_date_time(WithClock(<<"at">>, 12, -1, "pm")).time_str[1]

\* texts with a named period: alone, next to a clock time, and two together
PeriodTexts ==
    UNION {{ Words(<<p>>),
             WithClock(<<"tomorrow", p, "at">>, 3, -1, "pm"),
             WithClock(<<p, "at">>, 10, 30, ""),
             Words(<<"evening", p>>),
             Words(<<p, "afternoon">>) } : p \in {"morning", "afternoon", "evening"}}

\* C25: a text with "morning", "afternoon" or "evening" gets the time label
\* 09:00, 14:00 or 17:00, by the first of the three words, in that order, that
\* it contains, whatever clock time it also holds.
C25_NamedPeriodWins ==
    \A text \in PeriodTexts \cup DayUtterances :
        LET time_str == extract_date_time(text).time_str
        IN  /\ Has(text, "morning") => time_str = Some(Label(9, 0))
            /\ (~Has(text, "morning") /\ Has(text, "afternoon"))
                   => time_str = Some(Label(14, 0))
            /\ (~Has(text, "morning") /\ ~Has(text, "afternoon") /\ Has(text, "evening"))
                   => time_str = Some(Label(17, 0))

C25_Witness ==
    /\ last[1].intent = "book"
    /\ last[1].response = "booked"
    /\ Len(calendar_events) >= 1
    /\ calendar_events[Len(calendar_events)].time = Label(9, 0)
    /\ pattern_time(WithClock(<<"book", "a", "call", "tomorrow", "morning", "at">>, 3, -1, "pm"))
           = Some(Label(15, 0))

\* C26: every time label extract_date_time returns has minutes 00 and an hour
\* of 00 ... 23.
C26_TimeLabelOnTheHour ==
    \A text \in ClockTexts \cup HourTexts \cup PeriodTexts \cup DayUtterances :
        LET time_str == extract_date_time(text).time_str
        IN  Truthy(time_str)
            => (time_str[1].mm = 0 /\ 0 <= time_str[1].hh /\ time_str[1].hh <= 23)

\* C27: in a state with waiting_for_date, waiting_for_time or
\* checking_availability, a turn whose text holds no date and no time and whose
\* intent is not book, check, greeting or select_time, and not a confirm or
\* cancel of a pending booking, returns the session state it got and leaves
\* the store unchanged.
C27_RepromptKeepsState ==
    [][\A s \in Sessions, text \in Utterances :
          LET ss == session_state[s]
              intent == extract_intent(text, ss)
          IN  (/\ chat(s, text)
               /\ (ss.waiting_for_date \/ ss.waiting_for_time \/ ss.checking_availability)
               /\ ~Truthy(extract_date_time(text).date)
               /\ ~Truthy(extract_date_time(text).time_str)
               /\ intent \notin {"book", "check", "greeting", "select_time"}
               /\ ~(ss.pending_confirmation /\ intent \in {"confirm", "cancel"}))
              => (session_state'[s] = ss /\ calendar_events' = calendar_events)]_vars

C27_Witness ==
    /\ last[1].intent = "unknown"
    /\ last[1].response = "still_waiting_for_time"
    /\ session_state[1].waiting_for_time
    /\ session_state[1].booking_flow
    /\ Truthy(session_state[1].selected_date)
    /\ session_state[1].available_slots # <<>>

\* C28: in a state with selected_date and waiting_for_time, a turn whose text
\* holds no date, no time and no keyword is answered with the request for a
\* time.
C28_RepromptAsksForTime ==
    [][\A s \in Sessions, text \in Utterances :
          (/\ TurnWithIntent(s, text, "unknown")
           /\ Truthy(session_state[s].selected_date)
           /\ session_state[s].waiting_for_time
           /\ ~Truthy(extract_date_time(text).date)
           /\ ~Truthy(extract_date_time(text).time_str))
          => last'[s].response = "still_waiting_for_time"]_vars

\* C29: in a state with waiting_for_time and a selected_date or an
\* availability_date, a turn whose text is a 1-2 digit number leaves the store
\* unchanged and either keeps the session state as it is (the slot is
\* rejected) or adds to it a pending booking on a remembered date; the
\* remembered dates are never dropped.
C29_HourKeepsRememberedDate ==
    [][\A s \in Sessions, text \in Utterances :
          LET ss == session_state[s]
              remembered == {fromisoformat(d[1]).day :
                                d \in {ss.selected_date, ss.availability_date} \ {None}}
          IN  (/\ chat(s, text)
               /\ IsNumber(text)
               /\ ss.waiting_for_time
               /\ remembered # {})
              => /\ calendar_events' = calendar_events
                 /\ \/ session_state'[s] = ss
                    \/ /\ session_state'[s].pending_confirmation
                       /\ Truthy(session_state'[s].pending_booking)
                       /\ fromisoformat(session_state'[s].pending_booking[1].date).day
                              \in remembered
                       /\ session_state'[s].selected_date = ss.selected_date
                       /\ session_state'[s].availability_date = ss.availability_date]_vars

\* C30: a time-selection turn on a state with selected_date makes the pending
\* booking for the calendar date of selected_date, also when an
\* availability_date of another date is present.
C30_SelectionUsesSelectedDate ==
    [][\A s \in Sessions, text \in DayUtterances :
          (/\ TurnWithIntent(s, text, "select_time")
           /\ Truthy(session_state[s].selected_date)
           /\ Truthy(session_state'[s].pending_booking)
           /\ session_state'[s].pending_booking # session_state[s].pending_booking)
          => fromisoformat(session_state'[s].pending_booking[1].date).day
                 = fromisoformat(session_state[s].selected_date[1]).day]_vars

\* C31: a turn whose intent is cancel returns the empty session state, from
\* every session state.
C31_CancelAlwaysResets ==
    [][\A s \in Sessions, text \in Utterances :
          TurnWithIntent(s, text, "cancel") => session_state'[s] = EmptyState]_vars

\* C32: with the turns of two sessions handled one at a time on one store, no
\* calendar date and time label is taken by more than one event of the store.
C32_SharedStoreNoDoubleBooking ==
    \A i \in 1..Len(calendar_events) :
        Cardinality({j \in 1..Len(calendar_events) :
                        /\ event_day(calendar_events[j]) = event_day(calendar_events[i])
                        /\ calendar_events[j].time = calendar_events[i].time}) = 1

\* C38: a book turn appends an event only when the store of that moment holds
\* no event with the same calendar date and time label, whichever session is
\* served and whatever turns of other sessions came before.
C38_DirectBookingRechecks ==
    [][\A s \in Sessions, text \in SharedUtterances :
          (TurnWithIntent(s, text, "book") /\ calendar_events' # calendar_events)
          => /\ Len(calendar_events') = Len(calendar_events) + 1
             /\ \A i \in 1..Len(calendar_events) :
                    ~(/\ event_day(calendar_events[i])
                             = event_day(calendar_events'[Len(calendar_events')])
                      /\ calendar_events[i].time
                             = calendar_events'[Len(calendar_events')].time)]_vars

C38_Witness ==
    /\ \E s, t \in Sessions :
           /\ s # t
           /\ last[s].response = "booked"
           /\ last[t].intent = "book"
           /\ last[t].response = "time_not_available"
    /\ Len(calendar_events) = 1
    /\ calendar_events[1].time = Label(14, 0)

\* C33: the pending booking of a session state is the one the latest
\* select_time turn of that session set, with no reset of the state since; and
\* the event a confirm turn appends has the date and the time label of that
\* booking.
C33_ConfirmFollowsSelection ==
    [][\A s \in Sessions :
          /\ session_state'[s].pending_booking = last'[s].selected
          /\ \A text \in Utterances :
                 (TurnWithIntent(s, text, "confirm") /\ calendar_events' # calendar_events)
                 => /\ Truthy(last[s].selected)
                    /\ calendar_events'[Len(calendar_events')].date = last[s].selected[1].date
                    /\ calendar_events'[Len(calendar_events')].time
                           = last[s].selected[1].time]_vars

C33_Witness ==
    /\ last[1].intent = "confirm"
    /\ last[1].response = "confirmed"
    /\ last[1].selected = None
    /\ Len(calendar_events) = 1
    /\ calendar_events[1].time = Label(13, 0)
    /\ event_day(calendar_events[1]) = now.day + 1

\* C34: a turn of intent reject on a state with pending_confirmation leaves
\* pending_confirmation, pending_booking and the store as they were, so that
\* the booking is still there for a later confirm turn.
C34_RejectKeepsPending ==
    [][\A s \in Sessions, text \in Utterances :
          (TurnWithIntent(s, text, "reject") /\ session_state[s].pending_confirmation)
          => /\ session_state'[s].pending_confirmation
             /\ session_state'[s].pending_booking = session_state[s].pending_booking
             /\ calendar_events' = calendar_events]_vars

C34_Witness ==
    /\ last[1].intent = "reject"
    /\ session_state[1].pending_confirmation
    /\ Truthy(session_state[1].pending_booking)
    /\ extract_intent(Words(<<"yes">>), session_state[1]) = "confirm"

\* C36: in every session state, waiting_for_time implies that selected_date
\* is present.
C36_WaitingForTimeHasDate ==
    \A s \in Sessions :
        session_state[s].waiting_for_time => Truthy(session_state[s].selected_date)

C36_Witness ==
    /\ last[1].intent = "select_time"
    /\ last[1].response = "selected"
    /\ session_state[1].waiting_for_time
    /\ Truthy(session_state[1].selected_date)
    /\ Truthy(session_state[1].pending_booking)
    /\ fromisoformat(session_state[1].pending_booking[1].date).day
           = fromisoformat(session_state[1].selected_date[1]).day
    /\ fromisoformat(session_state[1].selected_date[1]).day # today.day

\* C37: a select_time turn on the number N that sets a pending booking sets it
\* for the label NN:00; no other label is derived from N.
C37_TypedHourIsLiteral ==
    [][\A s \in Sessions, text \in Utterances :
          (/\ TurnWithIntent(s, text, "select_time")
           /\ Truthy(session_state'[s].pending_booking)
           /\ session_state'[s].pending_booking # session_state[s].pending_booking)
          => /\ session_state'[s].pending_booking[1].time = Label(text.num, 0)
             /\ fromisoformat(session_state'[s].pending_booking[1].date).hour = text.num]_vars

C37_Witness ==
    /\ last[1].intent = "select_time"
    /\ last[1].response = "selected"
    /\ Truthy(session_state[1].pending_booking)
    /\ session_state[1].pending_booking[1].time = Label(0, 0)
    /\ InSeq(extract_date_time(Number(0)).time_str[1], session_state[1].available_slots)

\* the date a select_time turn books on in the session state ss:
\* availability_date when it is set (agent.py:285-303), otherwise selected_date,
\* otherwise the current date (agent.py:380-386)
selection_date(ss) ==
    IF Truthy(ss.availability_date) THEN fromisoformat(ss.availability_date[1])
    ELSE IF Truthy(ss.selected_date) THEN fromisoformat(ss.selected_date[1])
    ELSE today

\* C35: in every state of a single session started empty on an empty store,
\* every label of available_slots is free, in the store as it is now, on the
\* date the next time selection books on.
C35_OfferedSlotsAreFree ==
    \A s \in Sessions :
        \A i \in 1..Len(session_state[s].available_slots) :
            InSeq(session_state[s].available_slots[i],
                  get_free_slots(selection_date(session_state[s])))

====
